---- MODULE Spec2Model ----
(***************************************************************************)
(* Model of src/parsers.py: the heuristic datapoint extractor               *)
(* (extract_datapoints_from_text), its windowed amount search               *)
(* (find_amount_near) and the first-page text extractor with OCR fallback   *)
(* (extract_first_page_text).                                               *)
(*                                                                          *)
(* A text is a sequence of characters, each character a one-element string. *)
(* Regular expressions are syntax trees matched by a backtracking matcher   *)
(* that returns the possible end positions of a match in the order Python's *)
(* re module tries them (greedy repetition, alternatives left to right), so *)
(* "first element" is "the match re finds".                                 *)
(***************************************************************************)
EXTENDS Integers, Sequences, FiniteSets, TLC

VARIABLES text, out, amt, pc, pdf, ret

vars == <<text, out, amt, pc, pdf, ret>>

None == "None"

----------------------------------------------------------------------------
(* Characters and the classes the patterns use.                            *)

UpperSeq == <<"A","B","C","D","E","F","G","H","I","J","K","L","M",
              "N","O","P","Q","R","S","T","U","V","W","X","Y","Z">>
LowerSeq == <<"a","b","c","d","e","f","g","h","i","j","k","l","m",
              "n","o","p","q","r","s","t","u","v","w","x","y","z">>
DigitSeq == <<"0","1","2","3","4","5","6","7","8","9">>

Range(f) == {f[k] : k \in DOMAIN f}

UpperCh == Range(UpperSeq)
LowerCh == Range(LowerSeq)
AsciiDigit == Range(DigitSeq)
\* \d, \s and \w of a str pattern; the texts drawn here hold ASCII only.
DigitCh == AsciiDigit
SpaceCh == {" ", "\n", "\t"}
WordCh == UpperCh \cup LowerCh \cup DigitCh \cup {"_"}

\* str.lower() on one character
LowerOf(c) == IF c \in UpperCh
              THEN LowerSeq[CHOOSE k \in DOMAIN UpperSeq : UpperSeq[k] = c]
              ELSE c
UpperOf(c) == IF c \in LowerCh
              THEN UpperSeq[CHOOSE k \in DOMAIN LowerSeq : LowerSeq[k] = c]
              ELSE c

\* str.lower()
Lower(s) == [k \in 1..Len(s) |-> LowerOf(s[k])]

\* int() of one digit character
DigitVal(c) == (CHOOSE k \in DOMAIN DigitSeq : DigitSeq[k] = c) - 1

\* int(d) for a string of digits
RECURSIVE IntOf(_)
IntOf(d) == IF Len(d) = 0 THEN 0
            ELSE 10 * IntOf(SubSeq(d, 1, Len(d) - 1)) + DigitVal(d[Len(d)])

\* s[a:b] with 0-based Python offsets, clipped to the string
Slice(s, a, b) == SubSeq(s, a + 1, IF b < Len(s) THEN b ELSE Len(s))

\* str.strip()
RECURSIVE LStrip(_)
LStrip(s) == IF Len(s) > 0 /\ s[1] \in SpaceCh THEN LStrip(Tail(s)) ELSE s
RECURSIVE RStrip(_)
RStrip(s) == IF Len(s) > 0 /\ s[Len(s)] \in SpaceCh
             THEN RStrip(SubSeq(s, 1, Len(s) - 1)) ELSE s
Strip(s) == RStrip(LStrip(s))

\* str.replace(',', '')
RECURSIVE RemoveCommas(_)
RemoveCommas(s) == IF Len(s) = 0 THEN <<>>
                   ELSE IF s[1] = "," THEN RemoveCommas(Tail(s))
                   ELSE <<s[1]>> \o RemoveCommas(Tail(s))

----------------------------------------------------------------------------
(* Regular expressions.                                                    *)

Ch(S) == [t |-> "chr", set |-> S]
Eps == [t |-> "eps"]
WB == [t |-> "wb"]
BOL == [t |-> "bol"]
EOL == [t |-> "eol"]
Cat(a, b) == [t |-> "cat", a |-> a, b |-> b]
Alt(a, b) == [t |-> "alt", a |-> a, b |-> b]
\* greedy a{min,max}; max = -1 is no upper limit
Rep(a, min, max) == [t |-> "rep", a |-> a, min |-> min, max |-> max]
Opt(a) == Rep(a, 0, 1)
Star(a) == Rep(a, 0, -1)
Plus(a) == Rep(a, 1, -1)

RECURSIVE CatAll(_)
CatAll(rs) == IF Len(rs) = 0 THEN Eps
              ELSE IF Len(rs) = 1 THEN rs[1]
              ELSE Cat(rs[1], CatAll(Tail(rs)))
RECURSIVE AltAll(_)
AltAll(rs) == IF Len(rs) = 1 THEN rs[1] ELSE Alt(rs[1], AltAll(Tail(rs)))

\* a literal string, case-sensitive
Lit(s) == CatAll([k \in 1..Len(s) |-> Ch({s[k]})])
\* a literal string under re.I
LitI(s) == CatAll([k \in 1..Len(s) |-> Ch({LowerOf(s[k]), UpperOf(s[k])})])

IsWordAt(s, i) == i >= 1 /\ i <= Len(s) /\ s[i] \in WordCh

\* Ends(r, s, i): the positions (index of the next unread character) at which
\* a match of r that starts at index i of s can end, in backtracking order.
\* EndsFrom(r, s, is) is the same from each start of the list is, in order.
RECURSIVE Ends(_, _, _)
RECURSIVE EndsFrom(_, _, _)
RECURSIVE RepEnds(_, _, _, _)
RECURSIVE RepFrom(_, _, _, _)
Ends(r, s, i) ==
  CASE r.t = "chr" -> IF i <= Len(s) /\ s[i] \in r.set THEN <<i + 1>> ELSE <<>>
    [] r.t = "eps" -> <<i>>
    [] r.t = "wb"  -> IF IsWordAt(s, i - 1) # IsWordAt(s, i) THEN <<i>> ELSE <<>>
    [] r.t = "bol" -> IF i = 1 THEN <<i>> ELSE <<>>
    [] r.t = "eol" -> IF i = Len(s) + 1 \/ (i = Len(s) /\ s[i] = "\n")
                      THEN <<i>> ELSE <<>>
    [] r.t = "cat" -> EndsFrom(r.b, s, Ends(r.a, s, i))
    [] r.t = "alt" -> Ends(r.a, s, i) \o Ends(r.b, s, i)
    [] r.t = "rep" -> RepEnds(r, s, i, 0)
EndsFrom(r, s, is) ==
  IF Len(is) = 0 THEN <<>>
  ELSE Ends(r, s, Head(is)) \o EndsFrom(r, s, Tail(is))
\* greedy: one more repetition first, stopping here last; n repetitions done
RepEnds(r, s, i, n) ==
  (IF r.max = -1 \/ n < r.max
   THEN RepFrom(r, s, Ends(r.a, s, i), n + 1) ELSE <<>>)
  \o (IF n >= r.min THEN <<i>> ELSE <<>>)
RepFrom(r, s, is, n) ==
  IF Len(is) = 0 THEN <<>>
  ELSE RepEnds(r, s, Head(is), n) \o RepFrom(r, s, Tail(is), n)

\* A compiled pattern: pre, then the capture group g the program reads, which
\* every pattern here has as its last component.  Whole(r) is a pattern read
\* only through group 0.
Pat(pre, g) == [pre |-> pre, g |-> g]
Whole(r) == Pat(r, Eps)

\* A match object: the Python offsets of group 0 (start, end) and of g.
NoMatch == [found |-> FALSE]
IsMatch(m) == m.found

\* the first way to match p at index i: the first end pe of pre after which g
\* matches, with the first end of g there
RECURSIVE FirstHit(_, _, _, _)
HitOrNext(p, s, i, pe, ge) ==
  IF Len(ge) = 0 THEN FirstHit(p, s, i, Tail(pe))
  ELSE [found |-> TRUE, start |-> i - 1, end |-> Head(ge) - 1,
        gstart |-> Head(pe) - 1, gend |-> Head(ge) - 1]
FirstHit(p, s, i, pe) ==
  IF Len(pe) = 0 THEN NoMatch
  ELSE HitOrNext(p, s, i, pe, Ends(p.g, s, Head(pe)))

MatchAt(p, s, i) == FirstHit(p, s, i, Ends(p.pre, s, i))

\* pattern.search(s, pos): the leftmost match starting at offset >= pos.
\* SearchRange looks at the start offsets lo..hi, the lower half first.
RECURSIVE SearchRange(_, _, _, _)
MatchOrRange(m, p, s, lo, hi) ==
  IF IsMatch(m) THEN m ELSE SearchRange(p, s, lo, hi)
SearchRange(p, s, lo, hi) ==
  IF lo > hi THEN NoMatch
  ELSE IF lo = hi THEN MatchAt(p, s, lo + 1)
  ELSE MatchOrRange(SearchRange(p, s, lo, (lo + hi) \div 2),
                    p, s, (lo + hi) \div 2 + 1, hi)

SearchFrom(p, s, pos) == SearchRange(p, s, pos, Len(s))

Search(p, s) == SearchFrom(p, s, 0)

\* pattern.finditer(s): successive non-overlapping matches, in document order
\* (no pattern of the program matches the empty string)
RECURSIVE FindIterFrom(_, _, _)
MatchThenRest(p, s, m) ==
  IF ~IsMatch(m) THEN <<>> ELSE <<m>> \o FindIterFrom(p, s, m.end)
FindIterFrom(p, s, pos) == MatchThenRest(p, s, SearchFrom(p, s, pos))

FindIter(p, s) == FindIterFrom(p, s, 0)

Group0(s, m) == Slice(s, m.start, m.end)
GroupG(s, m) == Slice(s, m.gstart, m.gend)

\* A string literal as a sequence of characters, and back.
Chars(str) == [k \in 1..Len(str) |-> SubSeq(str, k, k)]
RECURSIVE Str(_)
Str(s) == IF Len(s) = 0 THEN "" ELSE s[1] \o Str(Tail(s))

----------------------------------------------------------------------------
(* Utility regexes.                                                        *)

\* the rupee sign and the en dash, each one character
Rupee == "RUPEE"
EnDash == "ENDASH"

D(min, max) == Rep(Ch(DigitCh), min, max)
Sp0 == Star(Ch(SpaceCh))
Sp1 == Plus(Ch(SpaceCh))
\* (?:\.\d+)?
Frac == Opt(Cat(Ch({"."}), Plus(Ch(DigitCh))))

AMOUNT_RE ==
  Pat(Cat(Opt(AltAll(<<Cat(Lit(Chars("Rs")), Opt(Ch({"."}))),
                       Lit(Chars("INR")), Ch({Rupee})>>)), Sp0),
      Alt(CatAll(<<Rep(Ch(AsciiDigit), 1, 3),
                   Star(Cat(Ch({","}), Rep(Ch(AsciiDigit), 3, 3))),
                   Frac>>),
          Cat(Plus(Ch(DigitCh)), Frac)))

\* \d{1,2}[/-]\d{1,2}[/-]\d{2,4}
NumDate == CatAll(<<D(1, 2), Ch({"/", "-"}), D(1, 2), Ch({"/", "-"}), D(2, 4)>>)

\* (?:Jan|Feb|...|Sep|Sept|...|Dec)[a-z]* under re.I
Month ==
  Cat(AltAll([k \in 1..13 |->
        LitI(Chars(<<"Jan", "Feb", "Mar", "Apr", "May", "Jun", "Jul", "Aug",
                     "Sep", "Sept", "Oct", "Nov", "Dec">>[k]))]),
      Star(Ch(LowerCh \cup UpperCh)))

DATE_RE ==
  Whole(AltAll(<<
    CatAll(<<WB, NumDate, WB>>),
    CatAll(<<WB, D(1, 2), Sp1, Month, Opt(Ch({".", ","})), Sp1, D(2, 4), WB>>),
    CatAll(<<WB, Month, Sp1, D(1, 2), Opt(Ch({","})), Sp1, D(2, 4), WB>>)>>))

\* helper to find nearest amount after a keyword: the capture as a string
capture_or_none(window, m) == IF IsMatch(m) THEN Str(GroupG(window, m)) ELSE None
amount_in(window) == capture_or_none(window, Search(AMOUNT_RE, window))
find_amount_near(txt, start_idx, search_window) ==
  amount_in(Slice(txt, start_idx, start_idx + search_window))

----------------------------------------------------------------------------
(* 1) CARD LAST 4                                                          *)

MaskCh == {"*", "X", "x"}

\* ([*Xx]{2,}[*Xx0-9\s\-]{0,20}(\d{4})), read through group 2
MASKED_RE ==
  Pat(Cat(Rep(Ch(MaskCh), 2, -1),
          Rep(Ch(MaskCh \cup AsciiDigit \cup SpaceCh \cup {"-"}), 0, 20)),
      D(4, 4))

\* \d{4}
FOUR_RE == Whole(D(4, 4))

L(str) == Lit(Chars(str))

\* card\b|card no|card number|card account, matched against the lowered text
CARD_KW_RE ==
  Whole(AltAll(<<Cat(L("card"), WB), L("card no"), L("card number"),
                 L("card account")>>))

\* [m.start() for m in ms]
RECURSIVE Starts(_)
Starts(ms) == IF Len(ms) = 0 THEN <<>> ELSE <<Head(ms).start>> \o Starts(Tail(ms))

card_positions(lower) == Starts(FindIter(CARD_KW_RE, lower))

Abs(n) == IF n < 0 THEN -n ELSE n

\* the two nested loops over card_positions and the \d{4} matches: pi and fi
\* are the loop indices, best/best_dist the running choice (None before any)
RECURSIVE nearest_loop(_, _, _, _, _, _, _)
\* mutant: the comparison reversed, the farthest match wins
farthest_step(t, positions, fours, pi, fi, best, best_dist, dist) ==
  IF best = None \/ dist > best_dist
  THEN nearest_loop(t, positions, fours, pi, fi + 1,
                    Str(Group0(t, fours[fi])), dist)
  ELSE nearest_loop(t, positions, fours, pi, fi + 1, best, best_dist)
nearest_step(t, positions, fours, pi, fi, best, best_dist, dist) ==
  IF best = None \/ dist < best_dist
  THEN nearest_loop(t, positions, fours, pi, fi + 1,
                    Str(Group0(t, fours[fi])), dist)
  ELSE nearest_loop(t, positions, fours, pi, fi + 1, best, best_dist)
nearest_loop(t, positions, fours, pi, fi, best, best_dist) ==
  IF pi > Len(positions) THEN best
  ELSE IF fi > Len(fours)
       THEN nearest_loop(t, positions, fours, pi + 1, 1, best, best_dist)
  ELSE nearest_step(t, positions, fours, pi, fi, best, best_dist,
                    Abs(fours[fi].start - positions[pi]))

InYearRange(n) == 1900 <= n /\ n <= 2099
IsYear(d) == InYearRange(IntOf(d))

\* mutant: the last resort without the year filter
first_of_any(t, ms) ==
  IF Len(ms) = 0 THEN None ELSE Str(Group0(t, Head(ms)))

\* the last resort: the earliest 4-digit match that is not a year
RECURSIVE first_non_year(_, _)
first_non_year(t, ms) ==
  IF Len(ms) = 0 THEN None
  ELSE IF ~IsYear(Group0(t, Head(ms))) THEN Str(Group0(t, Head(ms)))
  ELSE first_non_year(t, Tail(ms))

\* the else branch: all_four are the \d{4} matches, positions the keyword starts
four_digit_fallback(t, all_four, positions) ==
  IF Len(all_four) = 0 THEN None
  ELSE IF Len(positions) > 0
       THEN nearest_loop(t, positions, all_four, 1, 1, None, 0)
       ELSE first_non_year(t, all_four)

\* mutant: the whole masked token (group 1) instead of its 4-digit tail
masked_whole_or_fallback(t, lower, m) ==
  IF IsMatch(m) THEN Str(Group0(t, m))
  ELSE four_digit_fallback(t, FindIter(FOUR_RE, t), card_positions(lower))

masked_or_fallback(t, lower, m) ==
  IF IsMatch(m) THEN Str(GroupG(t, m))
  ELSE four_digit_fallback(t, FindIter(FOUR_RE, t), card_positions(lower))

possible_last4(t, lower) == masked_or_fallback(t, lower, Search(MASKED_RE, t))

\* if possible_last4: out["card_last4"] = possible_last4.strip()
strip_if_any(v) == IF v # None /\ v # "" THEN Str(Strip(Chars(v))) ELSE None

card_last4_of(t, lower) == strip_if_any(possible_last4(t, lower))

----------------------------------------------------------------------------
(* 2) TOTAL AMOUNT DUE                                                     *)

total_keywords == <<
  Whole(CatAll(<<L("total"), Sp0, Opt(Cat(L("amount"), Sp0)), L("due")>>)),
  Whole(CatAll(<<L("total"), Sp0, L("dues")>>)),
  Whole(CatAll(<<L("total"), Sp0, L("payment"), Sp0, L("due")>>)),
  Whole(CatAll(<<L("your"), Sp0, L("total"), Sp0, L("amount"), Sp0, L("due")>>)),
  Whole(CatAll(<<L("total"), Sp0, L("dues"), Sp0, Opt(Ch({":", "-"}))>>)),
  Whole(CatAll(<<L("total"), Sp0, L("amount"), Sp0, L("payable")>>)),
  Whole(CatAll(<<L("total"), Sp0, L("payment")>>)),
  Whole(CatAll(<<L("total"), Sp0, L("d"), Alt(L("ue"), L("ues")), WB>>)) >>

\* (total[\s\w]{0,20}due|total[\s\w]{0,20}dues)
TOTAL_LOOSE_RE ==
  Whole(Alt(CatAll(<<L("total"), Rep(Ch(SpaceCh \cup WordCh), 0, 20), L("due")>>),
            CatAll(<<L("total"), Rep(Ch(SpaceCh \cup WordCh), 0, 20), L("dues")>>)))

KeywordWindow == 200
FallbackWindow == 300

\* mutant: the commas are left in
clean_amount_kept(a) == a

\* amt.replace(',', '')
clean_amount(a) == Str(RemoveCommas(Chars(a)))

\* the inner loop: the occurrences ms of one keyword, in document order
RECURSIVE total_inner(_, _)
amt_or_next(lower, ms, a) ==
  IF a # None /\ a # "" THEN clean_amount(a) ELSE total_inner(lower, Tail(ms))
total_inner(lower, ms) ==
  IF Len(ms) = 0 THEN None
  ELSE amt_or_next(lower, ms, find_amount_near(lower, Head(ms).end, KeywordWindow))

\* the outer loop over total_keywords from index k on, left on the first success
RECURSIVE total_chain(_, _)
\* mutant: no break out of the outer loop, a later pattern overwrites
later_or_found(lower, k, r) ==
  IF k < Len(total_keywords) /\ total_chain(lower, k + 1) # None
  THEN total_chain(lower, k + 1) ELSE r
found_or_next(lower, k, r) == IF r # None THEN r ELSE total_chain(lower, k + 1)
total_chain(lower, k) ==
  IF k > Len(total_keywords) THEN None
  ELSE found_or_next(lower, k,
                     total_inner(lower, FindIter(total_keywords[k], lower)))

\* the fallback loop: the amount phrase anywhere, then the next numeric token
\* of the original text from the start of the phrase
RECURSIVE total_fallback(_, _)
fallback_amt_or_next(t, ms, a) ==
  IF a # None /\ a # "" THEN clean_amount(a) ELSE total_fallback(t, Tail(ms))
total_fallback(t, ms) ==
  IF Len(ms) = 0 THEN None
  ELSE fallback_amt_or_next(t, ms,
                            find_amount_near(t, Head(ms).start, FallbackWindow))

\* if not out["total_amount_due"]: the fallback
chain_or_fallback(t, lower, r) ==
  IF r # None /\ r # "" THEN r
  ELSE total_fallback(t, FindIter(TOTAL_LOOSE_RE, lower))

total_amount_due_of(t, lower) == chain_or_fallback(t, lower, total_chain(lower, 1))

----------------------------------------------------------------------------
(* 3) PAYMENT DUE DATE and 4) STATEMENT DATE                               *)

due_patterns == <<
  Whole(CatAll(<<L("payment"), Sp0, L("due"), Sp0, L("date")>>)),
  Whole(CatAll(<<L("due"), Sp0, L("date")>>)),
  Whole(CatAll(<<L("payment"), Sp0, L("due"), WB>>)),
  Whole(CatAll(<<L("payment"), Sp0, L("due"), Sp0, Opt(Ch({":", "-"}))>>)),
  Whole(CatAll(<<L("payment"), Sp0, L("due"), Sp0>>)) >>

\* (immediat|immediate|immediately|immediately) under re.I
IMMEDIATE_RE ==
  Whole(AltAll(<<LitI(Chars("immediat")), LitI(Chars("immediate")),
                 LitI(Chars("immediately")), LitI(Chars("immediately"))>>))

DateWindow == 140

\* m.group(0).strip(), or None without a match
stripped_or_none(s, m) == IF IsMatch(m) THEN Str(Strip(Group0(s, m))) ELSE None

\* one window after a label: the first pattern, else the second
first_or_second(window, m, other) ==
  IF IsMatch(m) THEN Str(Strip(Group0(window, m)))
  ELSE stripped_or_none(window, Search(other, window))

\* one occurrence of a due label: a date in the window, else an immediate word
due_in(window) == first_or_second(window, Search(DATE_RE, window), IMMEDIATE_RE)

RECURSIVE due_inner(_, _)
due_or_next(t, ms, r) == IF r # None THEN r ELSE due_inner(t, Tail(ms))
due_inner(t, ms) ==
  IF Len(ms) = 0 THEN None
  ELSE due_or_next(t, ms, due_in(Slice(t, Head(ms).end, Head(ms).end + DateWindow)))

RECURSIVE due_chain(_, _, _)
due_found_or_next(t, lower, k, r) ==
  IF r # None /\ r # "" THEN r ELSE due_chain(t, lower, k + 1)
due_chain(t, lower, k) ==
  IF k > Len(due_patterns) THEN None
  ELSE due_found_or_next(t, lower, k,
                         due_inner(t, FindIter(due_patterns[k], lower)))

payment_due_date_of(t, lower) == due_chain(t, lower, 1)

statement_patterns == <<
  Whole(CatAll(<<L("statement"), Sp0, L("date")>>)),
  Whole(CatAll(<<L("statement"), Sp0, L("generation"), Sp0, L("date")>>)),
  Whole(CatAll(<<L("statement"), Sp0, L("period")>>)),
  Whole(CatAll(<<L("statement"), Sp0, L("for")>>)) >>

\* (\d{1,2}[/-]\d{1,2}[/-]\d{2,4}\s*[-ENDASH]\s*\d{1,2}[/-]\d{1,2}[/-]\d{2,4})
RANGE_RE == Whole(CatAll(<<NumDate, Sp0, Ch({"-", EnDash}), Sp0, NumDate>>))

\* one occurrence of a statement label: a date in the window, else a date range
statement_in(window) == first_or_second(window, Search(DATE_RE, window), RANGE_RE)

RECURSIVE statement_inner(_, _)
statement_or_next(t, ms, r) == IF r # None THEN r ELSE statement_inner(t, Tail(ms))
statement_inner(t, ms) ==
  IF Len(ms) = 0 THEN None
  ELSE statement_or_next(t, ms,
         statement_in(Slice(t, Head(ms).end, Head(ms).end + DateWindow)))

RECURSIVE statement_chain(_, _, _)
statement_found_or_next(t, lower, k, r) ==
  IF r # None /\ r # "" THEN r ELSE statement_chain(t, lower, k + 1)
statement_chain(t, lower, k) ==
  IF k > Len(statement_patterns) THEN None
  ELSE statement_found_or_next(t, lower, k,
         statement_inner(t, FindIter(statement_patterns[k], lower)))

statement_date_of(t, lower) == statement_chain(t, lower, 1)

----------------------------------------------------------------------------
(* 5) CARDHOLDER NAME                                                      *)

\* ([A-Z][A-Z\s\.\-]{2,100})
NameCapture ==
  Cat(Ch(UpperCh), Rep(Ch(UpperCh \cup SpaceCh \cup {".", "-"}), 2, 100))

\* \bName\s*[:\-]\s*([A-Z][A-Z\s\.\-]{2,100})
NAME_RE ==
  Pat(CatAll(<<WB, L("Name"), Sp0, Ch({":", "-"}), Sp0>>), NameCapture)

\* \bCustomer\s+Name\s*[:\-]?\s*([A-Z][A-Z\s\.\-]{2,100})
CUSTOMER_NAME_RE ==
  Pat(CatAll(<<WB, L("Customer"), Sp1, L("Name"), Sp0, Opt(Ch({":", "-"})), Sp0>>),
      NameCapture)

\* the length of the longest prefix of s without a character of set S
LeastOr(hits, none) ==
  IF hits = {} THEN none ELSE (CHOOSE k \in hits : \A j \in hits : k <= j) - 1
SpanNot(s, S) == LeastOr({k \in 1..Len(s) : s[k] \in S}, Len(s))

\* str.splitlines(); "\n" is the only line boundary the texts hold
RECURSIVE SplitLines(_)
LineThenRest(s, n) ==
  <<SubSeq(s, 1, n)>> \o SplitLines(SubSeq(s, n + 2, Len(s)))
SplitLines(s) == IF Len(s) = 0 THEN <<>> ELSE LineThenRest(s, SpanNot(s, {"\n"}))

\* str.split(): the maximal runs of non-whitespace
RECURSIVE SplitWords(_)
RECURSIVE SplitStripped(_)
WordThenRest(u, n) == <<SubSeq(u, 1, n)>> \o SplitWords(SubSeq(u, n + 1, Len(u)))
SplitStripped(u) == IF Len(u) = 0 THEN <<>> ELSE WordThenRest(u, SpanNot(u, SpaceCh))
SplitWords(s) == SplitStripped(LStrip(s))

\* ^[A-Z][a-zA-Z\.]{1,}$ under re.match
NAME_WORD_RE ==
  Whole(CatAll(<<BOL, Ch(UpperCh), Plus(Ch(UpperCh \cup LowerCh \cup {"."})), EOL>>))

\* (statement|payment|due|account|page|customer|bank|credit|statement date), re.I
GENERIC_RE ==
  Whole(AltAll(<<LitI(Chars("statement")), LitI(Chars("payment")),
                 LitI(Chars("due")), LitI(Chars("account")), LitI(Chars("page")),
                 LitI(Chars("customer")), LitI(Chars("bank")),
                 LitI(Chars("credit")), LitI(Chars("statement date"))>>))

\* \d
ANY_DIGIT_RE == Whole(D(1, 1))

MaxNameLines == 12

\* sum(1 for w in words if re.match(NAME_WORD_RE, w))
RECURSIVE name_words(_)
name_words(words) ==
  IF Len(words) = 0 THEN 0
  ELSE (IF IsMatch(MatchAt(NAME_WORD_RE, Head(words), 1)) THEN 1 ELSE 0)
       + name_words(Tail(words))

words_look_like_name(words) ==
  1 < Len(words) /\ Len(words) <= 5 /\ name_words(words) >= 1

\* the test the fallback applies to one stripped line l
line_is_name(l) ==
  /\ Len(l) > 0
  /\ ~IsMatch(Search(ANY_DIGIT_RE, l))
  /\ words_look_like_name(SplitWords(l))
  /\ ~IsMatch(Search(GENERIC_RE, l))

\* the loop over text.splitlines()[:12]; n lines are still to be looked at
RECURSIVE first_name_line(_, _)
line_or_next(lines, n, l) ==
  IF line_is_name(l) THEN Str(l) ELSE first_name_line(Tail(lines), n - 1)
first_name_line(lines, n) ==
  IF Len(lines) = 0 \/ n = 0 THEN None
  ELSE line_or_next(lines, n, Strip(Head(lines)))

name_fallback(t) == first_name_line(SplitLines(t), MaxNameLines)

\* nm.group(1).strip(), or None without a match
stripped_group_or_none(s, m) ==
  IF IsMatch(m) THEN Str(Strip(GroupG(s, m))) ELSE None

labelled_name(t, nm) ==
  IF IsMatch(nm) THEN Str(Strip(GroupG(t, nm)))
  ELSE stripped_group_or_none(t, Search(CUSTOMER_NAME_RE, t))

\* if not name: the fallback
name_or_fallback(t, name) ==
  IF name = None \/ name = "" THEN name_fallback(t) ELSE name

cardholder_name_of(t) == name_or_fallback(t, labelled_name(t, Search(NAME_RE, t)))

----------------------------------------------------------------------------
(* EXTRA: the candidates, and the whole function                            *)

RECURSIVE all_group0(_, _)
all_group0(t, ms) ==
  IF Len(ms) = 0 THEN <<>>
  ELSE <<Str(Group0(t, Head(ms)))>> \o all_group0(t, Tail(ms))

RECURSIVE all_clean_groups(_, _)
all_clean_groups(t, ms) ==
  IF Len(ms) = 0 THEN <<>>
  ELSE <<Str(RemoveCommas(GroupG(t, Head(ms))))>> \o all_clean_groups(t, Tail(ms))

candidate_dates(t) == all_group0(t, FindIter(DATE_RE, t))

candidate_amounts(t) == all_clean_groups(t, FindIter(AMOUNT_RE, t))

extract_fields(t, lower) ==
  [cardholder_name  |-> cardholder_name_of(t),
   statement_date   |-> statement_date_of(t, lower),
   payment_due_date |-> payment_due_date_of(t, lower),
   total_amount_due |-> total_amount_due_of(t, lower),
   card_last4       |-> card_last4_of(t, lower),
   candidates       |-> [dates |-> candidate_dates(t),
                         amounts |-> candidate_amounts(t)]]

\* lower = text.lower()
extract_chars(t) == extract_fields(t, Lower(t))

extract_datapoints_from_text(txt) == extract_chars(Chars(txt))

----------------------------------------------------------------------------
(* PDF text extraction with optional OCR fallback                           *)

MinDirectLen == 40
MinOcrLen == 20

\* if text and len(text.strip()) > 40
direct_is_enough(txt) == txt # "" /\ Len(Strip(Chars(txt))) > MinDirectLen

\* mutant: the length of the OCR text is tested without strip()
ocr_is_enough_unstripped(txt) == txt # "" /\ Len(txt) > MinOcrLen

\* if ocr_text and len(ocr_text.strip()) > 20
ocr_is_enough(txt) == txt # "" /\ Len(Strip(Chars(txt))) > MinOcrLen

\* What a library call does: it raises, or returns nothing (extract_text gives
\* None, convert_from_path gives no image), or returns a string.
Raises == [kind |-> "raise", v |-> ""]
Nothing == [kind |-> "nothing", v |-> ""]
Returns(str) == [kind |-> "text", v |-> str]

----------------------------------------------------------------------------
(* The inputs the specifications draw.                                      *)

MaxChunks == 3
PadSlack == 1
MaxStart == 2
MaxSpaces == 1
LenSlack == 1

\* the string c repeated n times
Twice(x) == x \o x
RECURSIVE RepStr(_, _)
RepStr(c, n) ==
  IF n <= 0 THEN ""
  ELSE IF n % 2 = 0 THEN Twice(RepStr(c, n \div 2))
  ELSE c \o RepStr(c, n - 1)

\* every concatenation of at most n chunks of V
RECURSIVE Concats(_, _)
Concats(V, n) ==
  IF n = 0 THEN {""}
  ELSE Concats(V, n - 1) \cup {q \o c : q \in Concats(V, n - 1), c \in V}

\* two chunks with a filler between them that is about as long as window w
Padded(V, w) ==
  {a \o RepStr("z", w - d) \o b : a \in V, b \in V, d \in 0..PadSlack}

CardChunks == {"XX", "2023", "1234", "5", " card"}
AmountChunks == {"total amount due ", "total x due ", "total payment 5 ", "1,234", "12345.67 "}
AmountPadChunks == {"total amount due ", "1,234"}
DueChunks == {"Payment Due", " IMMEDIATELY", "due date", "1/2/23", "Statement Date "}
NameChunks == {"Name: JOHN SMITH", "\nMUMBAI", "Sur", "Mr. Lee\n", "SON"}

CardTexts == Concats(CardChunks, MaxChunks)
AmountTexts == Concats(AmountChunks, MaxChunks)
                 \cup Padded(AmountPadChunks, KeywordWindow - 1)
                 \cup Padded(AmountPadChunks, FallbackWindow - Len("total amount due "))
DueTexts == Concats(DueChunks, MaxChunks)
NameTexts == Concats(NameChunks, MaxChunks)

\* page texts whose trimmed length is 0 or within LenSlack of the threshold n,
\* bare or wrapped in whitespace
PageTexts(c, n) ==
  {RepStr(" ", l) \o RepStr(c, k) \o RepStr("\n", l) :
     l \in 0..MaxSpaces, k \in {0} \cup ((n - LenSlack)..(n + 1 + LenSlack))}

DirectOutcomes == {Raises, Nothing} \cup {Returns(x) : x \in PageTexts("d", MinDirectLen)}
OcrOutcomes == {Raises, Nothing} \cup {Returns(x) : x \in PageTexts("o", MinOcrLen)}

NoPdf == [direct |-> Nothing, ocr |-> Nothing, ocr_fallback |-> FALSE,
          OCR_AVAILABLE |-> FALSE, ocr_attempted |-> FALSE]

----------------------------------------------------------------------------
(* The state machine.                                                      *)
(*   text  the page text: the argument of extract_datapoints_from_text and *)
(*         of find_amount_near, the local of extract_first_page_text       *)
(*   out   the record extract_datapoints_from_text returned                *)
(*   amt   a call of find_amount_near: its arguments and its result        *)
(*   pdf   the file as the libraries see it, the caller's ocr_fallback,    *)
(*         the module's OCR_AVAILABLE, and whether OCR was attempted       *)
(*   ret   what extract_first_page_text returned                           *)
(*   pc    where the call is                                               *)

InitText(T) ==
  /\ text \in T
  /\ out = None /\ amt = None /\ ret = None
  /\ pdf = NoPdf
  /\ pc = "input"

InitCard == InitText(CardTexts)
InitAmount == InitText(AmountTexts)
InitDue == InitText(DueTexts)
InitName == InitText(NameTexts)

InitPdf ==
  /\ text = ""
  /\ out = None /\ amt = None /\ ret = None
  /\ \E d \in DirectOutcomes, o \in OcrOutcomes, f \in BOOLEAN, a \in BOOLEAN :
       pdf = [direct |-> d, ocr |-> o, ocr_fallback |-> f,
              OCR_AVAILABLE |-> a, ocr_attempted |-> FALSE]
  /\ pc = "start"

\* extract_datapoints_from_text(text)
ExtractDatapoints ==
  /\ pc = "input"
  /\ out' = extract_datapoints_from_text(text)
  /\ pc' = "done"
  /\ UNCHANGED <<text, amt, pdf, ret>>

\* find_amount_near(text, start_idx, search_window)
FindAmountNear ==
  /\ pc = "input"
  /\ \E start_idx \in 0..MaxStart, w \in {KeywordWindow, FallbackWindow} :
       amt' = [start_idx |-> start_idx, search_window |-> w,
               result |-> find_amount_near(Chars(text), start_idx, w)]
  /\ pc' = "found"
  /\ UNCHANGED <<text, out, pdf, ret>>

\* extract_first_page_text, the try block: direct extraction
DirectExtraction ==
  /\ pc = "start"
  /\ IF pdf.direct.kind = "text" /\ direct_is_enough(pdf.direct.v)
     THEN text' = pdf.direct.v /\ ret' = pdf.direct.v /\ pc' = "returned"
     ELSE /\ text' = (IF pdf.direct.kind = "text" THEN pdf.direct.v ELSE "")
          /\ ret' = ret
          /\ pc' = "fallback"
  /\ UNCHANGED <<out, amt, pdf>>

\* if ocr_fallback and OCR_AVAILABLE: the OCR attempt
OcrFallback ==
  /\ pc = "fallback"
  /\ pdf.ocr_fallback /\ pdf.OCR_AVAILABLE
  /\ pdf' = [pdf EXCEPT !.ocr_attempted = TRUE]
  /\ IF pdf.ocr.kind = "text" /\ ocr_is_enough(pdf.ocr.v)
     THEN ret' = pdf.ocr.v /\ pc' = "returned"
     ELSE ret' = ret /\ pc' = "tail"
  /\ UNCHANGED <<text, out, amt>>

\* the elif / no branch: OCR is not attempted
SkipOcr ==
  /\ pc = "fallback"
  /\ ~(pdf.ocr_fallback /\ pdf.OCR_AVAILABLE)
  /\ pc' = "tail"
  /\ UNCHANGED <<text, out, amt, pdf, ret>>

\* return text or ""
ReturnText ==
  /\ pc = "tail"
  /\ ret' = text
  /\ pc' = "returned"
  /\ UNCHANGED <<text, out, amt, pdf>>

NextText == ExtractDatapoints
NextAmount == ExtractDatapoints \/ FindAmountNear
NextPdf == DirectExtraction \/ OcrFallback \/ SkipOcr \/ ReturnText

SpecCard == InitCard /\ [][NextText]_vars
SpecAmount == InitAmount /\ [][NextAmount]_vars
SpecDue == InitDue /\ [][NextText]_vars
SpecName == InitName /\ [][NextText]_vars
SpecPdf == InitPdf /\ [][NextPdf]_vars

Init == InitCard \/ InitAmount \/ InitDue \/ InitName \/ InitPdf
Next == NextAmount \/ NextPdf
Spec == Init /\ [][Next]_vars

----------------------------------------------------------------------------
(* The properties.                                                         *)

T == Chars(text)
LowerT == Lower(T)

InSeq(x, xs) == \E k \in 1..Len(xs) : xs[k] = x

\* whether string str holds string lit, and the offsets at which it does
OccursAt(str, lit, i) == SubSeq(str, i + 1, i + Len(lit)) = lit
Occurrences(str, lit) == {i \in 0..(Len(str) - Len(lit)) : OccursAt(str, lit, i)}
Contains(str, lit) == Occurrences(str, lit) # {}

Least(S) == CHOOSE x \in S : \A y \in S : x <= y

IsImmediateToken(v) ==
  Str(Lower(Chars(v))) \in {"immediat", "immediate", "immediately"}

\* C1: every primary field matched as a date or an amount is also an element
\* of the corresponding candidate sequence: statement_date and payment_due_date
\* (unless it is an immediate token) of candidates.dates, total_amount_due of
\* candidates.amounts.
C1_PrimaryFieldsAreCandidates ==
  pc = "done" =>
    /\ out.statement_date # None =>
         InSeq(out.statement_date, out.candidates.dates)
    /\ (out.payment_due_date # None /\ ~IsImmediateToken(out.payment_due_date)) =>
         InSeq(out.payment_due_date, out.candidates.dates)
    /\ out.total_amount_due # None =>
         InSeq(out.total_amount_due, out.candidates.amounts)

\* the offsets at which any due label matches the lowered text
DueLabelStarts ==
  UNION {{FindIter(due_patterns[k], LowerT)[j].start :
            j \in 1..Len(FindIter(due_patterns[k], LowerT))} :
         k \in 1..Len(due_patterns)}

\* the text holds "Payment Due IMMEDIATELY", no due label before it, and no
\* digit at all (so no date after any label)
C2_Premise ==
  /\ Contains(text, "Payment Due IMMEDIATELY")
  /\ \A k \in 1..Len(T) : T[k] \notin DigitCh
  /\ Least(DueLabelStarts) = Least(Occurrences(text, "Payment Due IMMEDIATELY"))

\* C2: a text with "Payment Due IMMEDIATELY", no date after the due keyword and
\* no earlier due label gives payment_due_date = "IMMEDIATELY", the whole word.
C2_ImmediatelyIsWholeWord ==
  (pc = "done" /\ C2_Premise) => out.payment_due_date = "IMMEDIATELY"

\* one or more digits, optionally a point and one or more digits
IsPlainDecimal(v) ==
  /\ Len(v) >= 1
  /\ \A k \in 1..Len(v) : v[k] \in AsciiDigit \cup {"."}
  /\ Cardinality({k \in 1..Len(v) : v[k] = "."}) <= 1
  /\ v[1] # "." /\ v[Len(v)] # "."

\* C3: total_amount_due, when present, holds no comma and has the shape of a
\* non-negative decimal number (digits, optionally a point and digits),
\* whether the keyword chain or the fallback scan set it.
C3_TotalIsPlainDecimal ==
  (pc = "done" /\ out.total_amount_due # None) =>
    /\ \A k \in 1..Len(Chars(out.total_amount_due)) :
         Chars(out.total_amount_due)[k] # ","
    /\ IsPlainDecimal(Chars(out.total_amount_due))

\* the fallback scan set total_amount_due from a numeral written with a comma
C3_Witness ==
  /\ pc = "done"
  /\ total_chain(LowerT, 1) = None
  /\ out.total_amount_due = "1234"
  /\ Contains(text, "1,234")

\* the offsets at which four digits stand in a row, overlapping ones included
FourDigitStarts ==
  {i \in 0..(Len(T) - 4) : \A k \in 1..4 : T[i + k] \in DigitCh}
FourAt(i) == SubSeq(T, i + 1, i + 4)

NoNonYearFour == \A i \in FourDigitStarts : IsYear(FourAt(i))
NoCardKeyword == Len(card_positions(LowerT)) = 0
NoMaskedRun == ~IsMatch(Search(MASKED_RE, T))

\* C4 as stated: no 4-digit sequence that is not a year and no "card" keyword
\* give card_last4 = none, whichever step of the chain handles the text.
C4_Original ==
  (pc = "done" /\ NoNonYearFour /\ NoCardKeyword) => out.card_last4 = None

\* C4 as amended: a text with no masked run before four digits, no 4-digit
\* substring outside 1900..2099 and no "card" keyword gives card_last4 = none.
C4_NoneWithoutMaskYearsOnly ==
  (pc = "done" /\ NoMaskedRun /\ NoNonYearFour /\ NoCardKeyword) =>
    out.card_last4 = None

\* the year filter of the last step decided: the text holds a year and nothing else
C4_Witness ==
  /\ pc = "done"
  /\ NoMaskedRun /\ NoNonYearFour /\ NoCardKeyword
  /\ FourDigitStarts # {}
  /\ out.card_last4 = None

\* C5: card_last4, when present, is exactly 4 characters, each a digit.
C5_Last4IsFourDigits ==
  (pc = "done" /\ out.card_last4 # None) =>
    /\ Len(out.card_last4) = 4
    /\ \A k \in 1..4 : Chars(out.card_last4)[k] \in DigitCh

\* the masked-run step produced card_last4
C5_Witness ==
  pc = "done" /\ ~NoMaskedRun /\ out.card_last4 # None

\* C6: a text that holds "Name: JOHN SMITH" gives cardholder_name =
\* "JOHN SMITH", whatever surrounds that substring.
C6_NameIsJohnSmith ==
  (pc = "done" /\ Contains(text, "Name: JOHN SMITH")) =>
    out.cardholder_name = "JOHN SMITH"

\* what direct extraction obtained: its text, or the empty string
DirectText == IF pdf.direct.kind = "text" THEN pdf.direct.v ELSE ""
TrimmedLen(str) == Len(Strip(Chars(str)))

\* C7: OCR is attempted only when the direct text is empty or has a trimmed
\* length <= 40, ocr_fallback is true and OCR is available; the function
\* returns the OCR text only when OCR was attempted and gave a text whose
\* trimmed length is > 20, and in every other case the direct text (the empty
\* string when there is none).
C7_FallbackProtocol ==
  /\ pdf.ocr_attempted =>
       /\ DirectText = "" \/ TrimmedLen(DirectText) <= 40
       /\ pdf.ocr_fallback /\ pdf.OCR_AVAILABLE
  /\ pc = "returned" =>
       IF pdf.ocr_attempted /\ pdf.ocr.kind = "text" /\ TrimmedLen(pdf.ocr.v) > 20
       THEN ret = pdf.ocr.v
       ELSE ret = DirectText

\* a short direct text was replaced by the OCR text
C7_Witness ==
  /\ pc = "returned"
  /\ pdf.ocr_attempted
  /\ TrimmedLen(DirectText) > 0
  /\ ret = pdf.ocr.v /\ ret # DirectText

\* the numeral shapes of the amount pattern, and the end of the longest
\* numeral of either shape that starts at index i of s
GroupedNumeral ==
  CatAll(<<Rep(Ch(AsciiDigit), 1, 3),
           Plus(Cat(Ch({","}), Rep(Ch(AsciiDigit), 3, 3))), Frac>>)
PlainNumeral == Cat(Plus(Ch(DigitCh)), Frac)
Greatest(S) == CHOOSE x \in S : \A y \in S : x >= y
NumeralEnd(s, i) ==
  Greatest(Range(Ends(GroupedNumeral, s, i)) \cup Range(Ends(PlainNumeral, s, i)))

AmtWindow == Slice(T, amt.start_idx, amt.start_idx + amt.search_window)

\* C8: the capture find_amount_near returns is the whole numeral that starts
\* where the capture starts (plain of any number of digits, or comma-grouped,
\* with its decimal part), never a proper prefix of it.
C8_CaptureIsWholeNumeral ==
  (pc = "found" /\ amt.result # None) =>
    Search(AMOUNT_RE, AmtWindow).gend =
      NumeralEnd(AmtWindow, Search(AMOUNT_RE, AmtWindow).gstart + 1) - 1

\* the (pattern index, occurrence index) pairs of the keyword chain whose
\* 200-character window after the keyword end holds an amount
Occurrence(k, j) == FindIter(total_keywords[k], LowerT)[j]
AmountAfter(k, j) == find_amount_near(LowerT, Occurrence(k, j).end, 200)
YieldingPairs ==
  {kj \in UNION {{<<k, j>> : j \in 1..Len(FindIter(total_keywords[k], LowerT))} :
                 k \in 1..Len(total_keywords)} :
     AmountAfter(kj[1], kj[2]) # None}
PairBefore(a, b) == a[1] < b[1] \/ (a[1] = b[1] /\ a[2] <= b[2])
LeastPair == CHOOSE a \in YieldingPairs : \A b \in YieldingPairs : PairBefore(a, b)

\* the occurrences of the looser phrase whose 300-character window from the
\* start of the phrase holds an amount
LooseAmount(j) ==
  find_amount_near(T, FindIter(TOTAL_LOOSE_RE, LowerT)[j].start, 300)
YieldingLoose ==
  {j \in 1..Len(FindIter(TOTAL_LOOSE_RE, LowerT)) : LooseAmount(j) # None}

WithoutCommas(v) == Str(SelectSeq(Chars(v), LAMBDA c : c # ","))

C10_Premise ==
  /\ NoMaskedRun
  /\ ~NoCardKeyword
  /\ FourDigitStarts # {}

CardStarts == Range(card_positions(LowerT))
Dist(i) == Least({Abs(i - q) : q \in CardStarts})

\* C10 as stated: card_last4 is the 4-digit substring whose start is nearest
\* to a keyword occurrence, among the substrings at every start position.
C10_Original ==
  (pc = "done" /\ C10_Premise) =>
    \E i \in FourDigitStarts :
      /\ Str(FourAt(i)) = out.card_last4
      /\ \A j \in FourDigitStarts : Dist(i) <= Dist(j)

\* the starts of the \d{4} matches of a left-to-right scan, which do not overlap
FourMatchStarts == Range(Starts(FindIter(FOUR_RE, T)))

\* C10 as amended: card_last4 is the 4-digit match whose start is nearest to a
\* keyword occurrence, among the non-overlapping matches of a left-to-right
\* scan for four digits; no year filter applies.
C10_NearestMatchWins ==
  (pc = "done" /\ C10_Premise) =>
    \E i \in FourMatchStarts :
      /\ Str(FourAt(i)) = out.card_last4
      /\ \A j \in FourMatchStarts : Dist(i) <= Dist(j)

\* a run of five digits: the nearest substring is not a match of the scan
C10_Witness ==
  /\ pc = "done"
  /\ C10_Premise
  /\ \E i \in FourDigitStarts \ FourMatchStarts :
       \A j \in FourMatchStarts : Dist(i) < Dist(j)

====
